---------------------------- MODULE Spec2Model ----------------------------
(***************************************************************************)
(* Time-dependent A* route search over a road network whose edges may      *)
(* carry periodic traffic signals (pages/astar.py, pages/traffic_light.py, *)
(* pages/road_network.py).                                                 *)
(*                                                                         *)
(* Units.  The program computes in floating point; the model computes in   *)
(* integers on inputs for which every intermediate value is exact:         *)
(*   - times are whole seconds;                                            *)
(*   - costs and distances are centimetres, so the program's 13.89 m/s is  *)
(*     AverageSpeed = 1389 cm/s;                                           *)
(*   - coordinates are in units of 1e-5 degree.                            *)
(***************************************************************************)
EXTENDS Integers, Sequences, FiniteSets, TLC

VARIABLES
    nodes,           \* RoadNetwork.nodes : node id -> <<lat, lon>>
    edges,           \* RoadNetwork.edges : insertion-ordered (from, to) -> distance
    graph,           \* RoadNetwork.graph : [loaded, adj]; adj: node id -> successor list
    traffic_lights,  \* TrafficLightPredictor.traffic_lights : <<from, to>> -> TrafficLight
    call,            \* the most recent call on the predictor / edge pricing and its outcome
    pc,              \* position of find_path
    start_id,        \* find_path argument
    goal_id,         \* find_path argument
    start_time,      \* find_path argument
    open_list,       \* heapq array of PathNode
    closed_set,
    g_costs,
    parents,
    stats,
    current_time,
    current,         \* the PathNode popped last
    neighbors,       \* the part of the neighbor list the for loop has not visited yet
    node_id,         \* cursor of the path reconstruction
    path,
    result,          \* what find_path returned: [path, cost, stats]
    pushed,          \* history: the PathNodes pushed during the call, in push order
    explored,        \* history: the node ids finalised during the call, in order
    priced           \* history: the edges priced during the call, in order

netVars == <<nodes, edges, graph>>
histVars == <<pushed, explored, priced>>
searchVars == <<pc, start_id, goal_id, start_time, open_list, closed_set, g_costs, parents,
                stats, current_time, current, neighbors, node_id, path, result,
                pushed, explored, priced>>
vars == <<nodes, edges, graph, traffic_lights, call, pc, start_id, goal_id, start_time,
          open_list, closed_set, g_costs, parents, stats, current_time, current,
          neighbors, node_id, path, result, pushed, explored, priced>>

-----------------------------------------------------------------------------
(* Program constants *)

\* average_speed = 13.89 m/s, in cm/s
AverageSpeed == 1389

\* "1 degree ~ 111 km": metres per degree
DegreeLength == 111000

\* remaining green of at most 5 s counts as blocked
GreenMargin == 5

\* float('inf')
Inf == 1000000000

\* Python's None where a node id is expected
None == -1

-----------------------------------------------------------------------------
(* Bounds *)

\* queries and start times range over -MaxTime..MaxTime
MaxTime == 4

\* periodicity is checked for shifts of -MaxK..MaxK cycles
MaxK == 2

\* at most MaxLights signals are registered in a search scenario
MaxLights == 1

-----------------------------------------------------------------------------
(* Small arithmetic helpers *)

\* a variant of PyMod: the remainder that takes the sign of the dividend, as
\* C's fmod does
TruncMod(a, b) ==
    LET m == IF b > 0 THEN b ELSE -b
    IN  IF a >= 0 THEN a % m ELSE -((-a) % m)

\* Python's a % b on numbers: the result has the sign of b.  b # 0.
PyMod(a, b) ==
    IF b > 0 THEN a % b ELSE -((-a) % (-b))

\* p < q for fractions <<numerator, denominator>> with positive denominators
FracLess(p, q) ==
    p[1] * q[2] < q[1] * p[2]

\* x * p for a fraction p; exact on the inputs the model draws
FracTimes(x, p) ==
    (x * p[1]) \div p[2]

\* the result of a call: a returned number, or an exception
Returned(v) ==
    [raised |-> FALSE, value |-> v]

ZeroDivisionError ==
    [raised |-> TRUE, value |-> 0]

-----------------------------------------------------------------------------
(* TrafficLightPredictor *)

\* values random.random() may draw, in [0, 1)
RandomDraws == {<<0, 4>>, <<2, 4>>, <<3, 4>>}

\* the dataclass TrafficLight, as add_traffic_light fills it
TrafficLight(from_node, cycle_time, green_ratio, r, u) ==
    [node_id          |-> from_node,
     cycle_time       |-> cycle_time,
     green_time       |-> FracTimes(cycle_time, green_ratio),
     red_time         |-> FracTimes(cycle_time, <<green_ratio[2] - green_ratio[1], green_ratio[2]>>),
     current_phase    |-> IF FracLess(r, green_ratio) THEN "green" ELSE "red",
     phase_start_time |-> FracTimes(cycle_time, u)]

\* traffic_lights[(from, to)] = light
Register(lights, key, light) ==
    [k \in (DOMAIN lights) \cup {key} |-> IF k = key THEN light ELSE lights[k]]

NoCall ==
    [op |-> "none", from_node |-> 0, to_node |-> 0, cycle_time |-> 0,
     green_ratio |-> <<0, 1>>, at_time |-> 0, raised |-> FALSE, value |-> 0]

\* add_traffic_light(from_node, to_node, cycle_time, green_ratio): no argument is
\* checked; the phase and the anchor are drawn at random.
add_traffic_light(from_node, to_node, cycle_time, green_ratio) ==
    /\ pc = "idle"
    /\ \/ <<from_node, to_node>> \in DOMAIN traffic_lights
       \/ Cardinality(DOMAIN traffic_lights) < MaxLights
    /\ \E r \in RandomDraws, u \in RandomDraws :
          traffic_lights' = Register(traffic_lights, <<from_node, to_node>>,
                                     TrafficLight(from_node, cycle_time, green_ratio, r, u))
    /\ call' = [NoCall EXCEPT !.op = "add", !.from_node = from_node, !.to_node = to_node,
                              !.cycle_time = cycle_time, !.green_ratio = green_ratio]
    /\ UNCHANGED <<netVars, searchVars>>

\* a variant of GreenPhaseWait: exactly GreenMargin seconds of green left
\* still count as passable
GreenPhaseWaitInclusive(tl, cycle_position) ==
    IF cycle_position < tl.green_time
    THEN LET remaining_green == tl.green_time - cycle_position
         IN  IF remaining_green >= GreenMargin THEN 0 ELSE tl.red_time
    ELSE tl.cycle_time - cycle_position

\* the wait of the green-anchored branch of get_wait_time
GreenPhaseWait(tl, cycle_position) ==
    IF cycle_position < tl.green_time
    THEN LET remaining_green == tl.green_time - cycle_position
         IN  IF remaining_green > GreenMargin THEN 0 ELSE tl.red_time
    ELSE tl.cycle_time - cycle_position

\* a variant of RedPhaseWait: the full red duration is charged, as the green
\* branch does near its transition
RedPhaseWaitFull(tl, cycle_position) ==
    IF cycle_position < tl.red_time
    THEN tl.red_time
    ELSE 0

\* the wait of the red-anchored branch of get_wait_time
RedPhaseWait(tl, cycle_position) ==
    IF cycle_position < tl.red_time
    THEN tl.red_time - cycle_position
    ELSE 0

\* get_wait_time on a registered signal
LightWait(tl, at_time) ==
    IF tl.cycle_time = 0
    THEN ZeroDivisionError
    ELSE LET cycle_position == PyMod(at_time - tl.phase_start_time, tl.cycle_time)
         IN  IF tl.current_phase = "green"
             THEN Returned(GreenPhaseWait(tl, cycle_position))
             ELSE Returned(RedPhaseWait(tl, cycle_position))

\* get_wait_time(from_node, to_node, current_time)
get_wait_time(from_node, to_node, at_time) ==
    LET key == <<from_node, to_node>>
    IN  IF key \notin DOMAIN traffic_lights
        THEN Returned(0)
        ELSE LightWait(traffic_lights[key], at_time)

\* a caller asks the predictor for a wait time
QueryWaitTime(from_node, to_node, at_time) ==
    /\ pc = "idle"
    /\ LET w == get_wait_time(from_node, to_node, at_time)
       IN  call' = [NoCall EXCEPT !.op = "wait", !.from_node = from_node,
                                  !.to_node = to_node, !.at_time = at_time,
                                  !.raised = w.raised, !.value = w.value]
    /\ UNCHANGED <<netVars, traffic_lights, searchVars>>

-----------------------------------------------------------------------------
(* RoadNetwork *)

\* has_node(node_id)
has_node(id) ==
    id \in DOMAIN nodes

\* the successors of node_id in the order the keys of self.edges were inserted
RECURSIVE EdgeKeyNeighbors(_, _)
EdgeKeyNeighbors(es, id) ==
    IF es = <<>> THEN <<>>
    ELSE IF Head(es).from = id
         THEN <<Head(es).to>> \o EdgeKeyNeighbors(Tail(es), id)
         ELSE EdgeKeyNeighbors(Tail(es), id)

\* get_neighbors(node_id): from the loaded graph when there is one, else from
\* the keys of self.edges
get_neighbors(id) ==
    IF graph.loaded THEN graph.adj[id] ELSE EdgeKeyNeighbors(edges, id)

\* get_edge_distance(from, to): self.edges.get((from, to)), None when absent
get_edge_distance(from_node, to_node) ==
    IF \E i \in 1..Len(edges) : edges[i].from = from_node /\ edges[i].to = to_node
    THEN LET i == CHOOSE j \in 1..Len(edges) :
                      edges[j].from = from_node /\ edges[j].to = to_node
         IN  edges[i].distance
    ELSE None

-----------------------------------------------------------------------------
(* AStarPathfinder *)

\* x ** 0.5, on the perfect squares the model's coordinates produce
Sqrt(x) ==
    CHOOSE r \in 0..x : r * r = x

\* heuristic(node1_id, node2_id): straight-line distance in degrees times
\* 111000 m; coordinates are in 1e-5 degree and the result is in cm, hence
\* the division by 1000
heuristic(node1_id, node2_id) ==
    IF ~has_node(node1_id) \/ ~has_node(node2_id)
    THEN Inf
    ELSE LET lat_diff == nodes[node1_id][1] - nodes[node2_id][1]
             lon_diff == nodes[node1_id][2] - nodes[node2_id][2]
             distance == Sqrt(lat_diff * lat_diff + lon_diff * lon_diff)
         IN  (distance * DegreeLength) \div 1000

\* wait_distance = wait_time * average_speed; distance + wait_distance
PricedEdge(distance, wait_time) ==
    distance + wait_time * AverageSpeed

\* get_edge_cost(from, to, current_time)
get_edge_cost(from_node, to_node, at_time) ==
    LET distance == get_edge_distance(from_node, to_node)
    IN  IF distance = None
        THEN Returned(Inf)
        ELSE LET w == get_wait_time(from_node, to_node, at_time)
             IN  IF w.raised THEN w
                 ELSE Returned(PricedEdge(distance, w.value))

\* a caller prices one edge
QueryEdgeCost(from_node, to_node, at_time) ==
    /\ pc = "idle"
    /\ LET c == get_edge_cost(from_node, to_node, at_time)
       IN  call' = [NoCall EXCEPT !.op = "cost", !.from_node = from_node,
                                  !.to_node = to_node, !.at_time = at_time,
                                  !.raised = c.raised, !.value = c.value]
    /\ UNCHANGED <<netVars, traffic_lights, searchVars>>

\* the dataclass PathNode; parent is kept as the predecessor's id
PathNode(id, g, h, parent) ==
    [node_id |-> id, g_cost |-> g, h_cost |-> h, parent |-> parent]

\* PathNode.f_cost
f_cost(n) ==
    n.g_cost + n.h_cost

\* a variant of Lt: the comparison turned around
LtReversed(a, b) ==
    a.g_cost + a.h_cost > b.g_cost + b.h_cost

\* PathNode.__lt__
Lt(a, b) ==
    f_cost(a) < f_cost(b)

\* heapq._siftdown(heap, startpos, pos), positions counted from 0
RECURSIVE siftdown(_, _, _, _)
siftdown(heap, startpos, pos, newitem) ==
    IF pos > startpos
    THEN LET parentpos == (pos - 1) \div 2
             parent == heap[parentpos + 1]
         IN  IF Lt(newitem, parent)
             THEN siftdown([heap EXCEPT ![pos + 1] = parent], startpos, parentpos, newitem)
             ELSE [heap EXCEPT ![pos + 1] = newitem]
    ELSE [heap EXCEPT ![pos + 1] = newitem]

\* heapq._siftup(heap, pos): move the smaller child up to a leaf, then sift down
RECURSIVE siftup(_, _, _, _)
siftup(heap, startpos, pos, newitem) ==
    LET endpos == Len(heap)
        leftpos == 2 * pos + 1
    IN  IF leftpos < endpos
        THEN LET rightpos == leftpos + 1
                 childpos == IF rightpos < endpos /\ ~Lt(heap[leftpos + 1], heap[rightpos + 1])
                             THEN rightpos ELSE leftpos
             IN  siftup([heap EXCEPT ![pos + 1] = heap[childpos + 1]], startpos, childpos, newitem)
        ELSE siftdown([heap EXCEPT ![pos + 1] = newitem], startpos, pos, newitem)

\* heapq.heappush(heap, item)
heappush(heap, item) ==
    siftdown(Append(heap, item), 0, Len(heap), item)

\* the heap heapq.heappop(heap) leaves behind; heap is not empty
heappop_rest(heap) ==
    LET lastelt == heap[Len(heap)]
        rest == SubSeq(heap, 1, Len(heap) - 1)
    IN  IF rest = <<>> THEN rest ELSE siftup(rest, 0, 0, lastelt)

\* the item heapq.heappop(heap) returns
heappop_item(heap) ==
    heap[1]

StatKeys == {"nodes_explored", "traffic_lights_encountered", "total_wait_time"}

\* the dict literal {}
EmptyDict ==
    [k \in {} |-> 0]

\* the stats dict a search starts with
ZeroStats ==
    [k \in StatKeys |-> 0]

\* d[key] = value on a dict
DictSet(d, key, value) ==
    [k \in (DOMAIN d) \cup {key} |-> IF k = key THEN value ELSE d[k]]

NoPathNode ==
    PathNode(None, 0, 0, None)

NoResult ==
    [path |-> <<>>, cost |-> 0, stats |-> EmptyDict]

\* the locals of find_path before a call
IdleSearch ==
    /\ pc = "idle"
    /\ start_id = None
    /\ goal_id = None
    /\ start_time = 0
    /\ open_list = <<>>
    /\ closed_set = {}
    /\ g_costs = EmptyDict
    /\ parents = EmptyDict
    /\ stats = EmptyDict
    /\ current_time = 0
    /\ current = NoPathNode
    /\ neighbors = <<>>
    /\ node_id = None
    /\ path = <<>>
    /\ result = NoResult
    /\ pushed = <<>>
    /\ explored = <<>>
    /\ priced = <<>>

\* a variant of TrivialResult: the stats a search starts with
TrivialResultWithCounters(start) ==
    [path |-> <<start>>, cost |-> 0,
     stats |-> [k \in {"nodes_explored", "traffic_lights_encountered", "total_wait_time"} |-> 0]]

\* the result of find_path(start, start, t): no existence check precedes it
TrivialResult(start) ==
    [path |-> <<start>>, cost |-> 0, stats |-> EmptyDict]

\* the result for an endpoint that is not a node
MissingNodeResult ==
    [path |-> <<>>, cost |-> Inf, stats |-> EmptyDict]

\* find_path(start_id, goal_id, start_time) up to the while loop
find_path(start, goal, time) ==
    /\ pc = "idle"
    /\ start_id' = start
    /\ goal_id' = goal
    /\ start_time' = time
    /\ IF start = goal
       THEN /\ result' = TrivialResult(start)
            /\ pc' = "returned"
            /\ UNCHANGED <<open_list, closed_set, g_costs, parents, stats, current_time,
                           pushed>>
       ELSE IF ~has_node(start) \/ ~has_node(goal)
       THEN /\ result' = MissingNodeResult
            /\ pc' = "returned"
            /\ UNCHANGED <<open_list, closed_set, g_costs, parents, stats, current_time,
                           pushed>>
       ELSE /\ open_list' = heappush(<<>>, PathNode(start, 0, heuristic(start, goal), None))
            /\ pushed' = <<PathNode(start, 0, heuristic(start, goal), None)>>
            /\ closed_set' = {}
            /\ g_costs' = DictSet(EmptyDict, start, 0)
            /\ parents' = EmptyDict
            /\ stats' = ZeroStats
            /\ current_time' = time
            /\ pc' = "loop"
            /\ UNCHANGED result
    /\ UNCHANGED <<netVars, traffic_lights, call, current, neighbors, node_id, path,
                   explored, priced>>

\* a variant of Pop: the closed test is left out, so a stale entry is expanded
\* again
PopStaleExpanded ==
    /\ pc = "loop"
    /\ open_list # <<>>
    /\ current' = heappop_item(open_list)
    /\ open_list' = heappop_rest(open_list)
    /\ IF current'.node_id = goal_id
       THEN /\ pc' = "walk"
            /\ path' = <<>>
            /\ node_id' = goal_id
            /\ UNCHANGED <<closed_set, stats, neighbors, explored>>
       ELSE /\ closed_set' = closed_set \cup {current'.node_id}
            /\ explored' = Append(explored, current'.node_id)
            /\ stats' = [stats EXCEPT !["nodes_explored"] = @ + 1]
            /\ neighbors' = get_neighbors(current'.node_id)
            /\ pc' = IF neighbors' = <<>> THEN "loop" ELSE "expand"
            /\ UNCHANGED <<path, node_id>>
    /\ UNCHANGED <<netVars, traffic_lights, call, start_id, goal_id, start_time, g_costs,
                   parents, current_time, result, pushed, priced>>

\* one turn of the while loop up to the for loop: pop, goal test, closed test,
\* finalisation
Pop ==
    /\ pc = "loop"
    /\ open_list # <<>>
    /\ current' = heappop_item(open_list)
    /\ open_list' = heappop_rest(open_list)
    /\ IF current'.node_id = goal_id
       THEN /\ pc' = "walk"
            /\ path' = <<>>
            /\ node_id' = goal_id
            /\ UNCHANGED <<closed_set, stats, neighbors, explored>>
       ELSE IF current'.node_id \in closed_set
       THEN UNCHANGED <<pc, path, node_id, closed_set, stats, neighbors, explored>>
       ELSE /\ closed_set' = closed_set \cup {current'.node_id}
            /\ explored' = Append(explored, current'.node_id)
            /\ stats' = [stats EXCEPT !["nodes_explored"] = @ + 1]
            /\ neighbors' = get_neighbors(current'.node_id)
            /\ pc' = IF neighbors' = <<>> THEN "loop" ELSE "expand"
            /\ UNCHANGED <<path, node_id>>
    /\ UNCHANGED <<netVars, traffic_lights, call, start_id, goal_id, start_time, g_costs,
                   parents, current_time, result, pushed, priced>>

\* the while loop ends with the frontier empty
Exhausted ==
    /\ pc = "loop"
    /\ open_list = <<>>
    /\ result' = [path |-> <<>>, cost |-> Inf, stats |-> stats]
    /\ pc' = "returned"
    /\ UNCHANGED <<netVars, traffic_lights, call, start_id, goal_id, start_time, open_list,
                   closed_set, g_costs, parents, stats, current_time, current, neighbors,
                   node_id, path, histVars>>

\* travel_time = edge_cost / 13.89; exact here, every distance of a searched
\* network being a multiple of AverageSpeed
travel_time(edge_cost) ==
    edge_cost \div AverageSpeed

\* history entry: edge (from, to) was priced edge_cost with the clock at at_time
PricedAt(from_node, to_node, at_time, edge_cost) ==
    [from |-> from_node, to |-> to_node, at_time |-> at_time, edge_cost |-> edge_cost]

\* one turn of the for loop over the neighbors of current
Relax ==
    /\ pc = "expand"
    /\ neighbors # <<>>
    /\ LET neighbor_id == Head(neighbors)
           after == IF Tail(neighbors) = <<>> THEN "loop" ELSE "expand"
       IN  /\ neighbors' = Tail(neighbors)
           /\ IF neighbor_id \in closed_set
              THEN /\ pc' = after
                   /\ UNCHANGED <<open_list, g_costs, parents, stats, current_time,
                                  pushed, priced>>
              ELSE LET edge_cost == get_edge_cost(current.node_id, neighbor_id, current_time)
                   IN  IF edge_cost.raised
                       THEN /\ pc' = "raised"
                            /\ UNCHANGED <<open_list, g_costs, parents, stats, current_time,
                                           pushed, priced>>
                       ELSE IF edge_cost.value = Inf
                       THEN /\ pc' = after
                            /\ UNCHANGED <<open_list, g_costs, parents, stats, current_time,
                                           pushed, priced>>
                       ELSE LET wait_time == get_wait_time(current.node_id, neighbor_id, current_time).value
                                tentative_g_cost == g_costs[current.node_id] + edge_cost.value
                            IN  /\ stats' = IF wait_time > 0
                                            THEN [stats EXCEPT
                                                    !["traffic_lights_encountered"] = @ + 1,
                                                    !["total_wait_time"] = @ + wait_time]
                                            ELSE stats
                                /\ IF neighbor_id \notin DOMAIN g_costs
                                      \/ tentative_g_cost < g_costs[neighbor_id]
                                   THEN /\ g_costs' = DictSet(g_costs, neighbor_id, tentative_g_cost)
                                        /\ parents' = DictSet(parents, neighbor_id, current.node_id)
                                        /\ open_list' = heappush(open_list,
                                              PathNode(neighbor_id, tentative_g_cost,
                                                       heuristic(neighbor_id, goal_id),
                                                       current.node_id))
                                        /\ pushed' = Append(pushed,
                                              PathNode(neighbor_id, tentative_g_cost,
                                                       heuristic(neighbor_id, goal_id),
                                                       current.node_id))
                                   ELSE UNCHANGED <<open_list, g_costs, parents, pushed>>
                                /\ priced' = Append(priced,
                                      PricedAt(current.node_id, neighbor_id, current_time,
                                               edge_cost.value))
                                /\ current_time' = current_time + travel_time(edge_cost.value)
                                /\ pc' = after
    /\ UNCHANGED <<netVars, traffic_lights, call, start_id, goal_id, start_time, closed_set,
                   current, node_id, path, result, explored>>

\* parents.get(node_id)
ParentOf(id) ==
    IF id \in DOMAIN parents THEN parents[id] ELSE None

\* one turn of the reconstruction loop: path.append(node_id); node_id = parents.get(node_id)
Walk ==
    /\ pc = "walk"
    /\ node_id # None
    /\ path' = Append(path, node_id)
    /\ node_id' = ParentOf(node_id)
    /\ UNCHANGED <<netVars, traffic_lights, call, pc, start_id, goal_id, start_time,
                   open_list, closed_set, g_costs, parents, stats, current_time, current,
                   neighbors, result, histVars>>

\* a variant of Reverse: the list is left in the order the walk built it
ReverseOmitted(s) ==
    s

\* list.reverse()
RECURSIVE Reverse(_)
Reverse(s) ==
    IF s = <<>> THEN <<>> ELSE Append(Reverse(Tail(s)), Head(s))

\* path.reverse(); return path, current.g_cost, stats
ReturnPath ==
    /\ pc = "walk"
    /\ node_id = None
    /\ path' = Reverse(path)
    /\ result' = [path |-> path', cost |-> current.g_cost, stats |-> stats]
    /\ pc' = "returned"
    /\ UNCHANGED <<netVars, traffic_lights, call, start_id, goal_id, start_time, open_list,
                   closed_set, g_costs, parents, stats, current_time, current, neighbors,
                   node_id, histVars>>

\* the caller is done with the result (or the exception); the locals of the
\* call are gone
Discard ==
    /\ pc \in {"returned", "raised"}
    /\ pc' = "idle"
    /\ start_id' = None
    /\ goal_id' = None
    /\ start_time' = 0
    /\ open_list' = <<>>
    /\ closed_set' = {}
    /\ g_costs' = EmptyDict
    /\ parents' = EmptyDict
    /\ stats' = EmptyDict
    /\ current_time' = 0
    /\ current' = NoPathNode
    /\ neighbors' = <<>>
    /\ node_id' = None
    /\ path' = <<>>
    /\ result' = NoResult
    /\ pushed' = <<>>
    /\ explored' = <<>>
    /\ priced' = <<>>
    /\ UNCHANGED <<netVars, traffic_lights, call>>

-----------------------------------------------------------------------------
(* Scenarios: the networks, signals and calls the specifications draw from *)

Edge(from_node, to_node, distance) ==
    [from |-> from_node, to |-> to_node, distance |-> distance]

\* self.graph is None: the network was built without a loaded graph
NoGraph ==
    [loaded |-> FALSE, adj |-> <<>>]

\* the two-node network of the spec's concrete scenarios: one 1000 m edge
TwoNodeNet ==
    [nodes |-> (0 :> <<0, 0>>) @@ (1 :> <<3, 4>>),
     edges |-> <<Edge(0, 1, 100000)>>,
     graph |-> NoGraph]

\* a detour that is cheaper than the direct edge, a return edge, a sink, and
\* node id 4 absent
DetourNet ==
    [nodes |-> (0 :> <<0, 0>>) @@ (1 :> <<3, 0>>) @@ (2 :> <<0, 4>>) @@ (3 :> <<3, 4>>),
     edges |-> <<Edge(0, 1, 4 * AverageSpeed), Edge(0, 2, AverageSpeed),
                 Edge(2, 1, AverageSpeed), Edge(1, 3, 3 * AverageSpeed),
                 Edge(1, 0, 4 * AverageSpeed)>>,
     graph |-> NoGraph]

\* a network with a loaded graph: get_neighbors answers from the graph, and the
\* graph's adjacency names an edge (0, 2) the distance table lacks
LoadedNet ==
    [nodes |-> (0 :> <<0, 0>>) @@ (1 :> <<3, 4>>) @@ (2 :> <<0, 0>>),
     edges |-> <<Edge(0, 1, AverageSpeed), Edge(1, 0, AverageSpeed)>>,
     graph |-> [loaded |-> TRUE,
                adj |-> (0 :> <<1, 2>>) @@ (1 :> <<0>>) @@ (2 :> <<>>)]]

\* a star: four edges out of node 0, the first three of equal length towards
\* nodes equally far from node 4
StarNet ==
    [nodes |-> (0 :> <<-3, -4>>) @@ (1 :> <<3, 4>>) @@ (2 :> <<-3, 4>>) @@ (3 :> <<3, -4>>)
                  @@ (4 :> <<0, 0>>),
     edges |-> <<Edge(0, 1, AverageSpeed), Edge(0, 2, AverageSpeed),
                 Edge(0, 3, AverageSpeed), Edge(0, 4, 3 * AverageSpeed)>>,
     graph |-> NoGraph]

SearchNets == {DetourNet, LoadedNet, StarNet}

\* node ids a caller may pass; the networks hold only some of them
SearchIds == 0..4

StartTimes == {0, MaxTime}

\* signal parameters of the search scenarios: a zero cycle, a regular cycle;
\* half green, and a green ratio above 1
SearchCycleTimes == {0, 12}

SearchGreenRatios == {<<2, 4>>, <<5, 4>>}

\* signal parameters of the oracle scenarios
CycleTimes == {-12, 0, 12, 120}

GreenRatios == {<<n, 4>> : n \in -1..5}

OracleKeys == {<<0, 1>>, <<1, 0>>}

QueryTimes == -MaxTime..MaxTime

\* two routes from 0 to 4, of two and of three hops, every edge of weight w;
\* order01 says whether edge (0, 1) was inserted before edge (0, 2)
TwoRouteNet(coords, w, order01) ==
    [nodes |-> coords,
     edges |-> IF order01
               THEN <<Edge(0, 1, w), Edge(0, 2, w), Edge(1, 4, w), Edge(2, 3, w), Edge(3, 4, w)>>
               ELSE <<Edge(0, 2, w), Edge(0, 1, w), Edge(1, 4, w), Edge(2, 3, w), Edge(3, 4, w)>>,
     graph |-> NoGraph]

\* positions whose pairwise distances are whole numbers
Coords == {<<0, 0>>, <<3, 4>>, <<30, 40>>}

UniformWeights == {AverageSpeed, 5 * AverageSpeed}

UniformNets ==
    {TwoRouteNet(c, w, o) : c \in [0..4 -> Coords], w \in UniformWeights, o \in BOOLEAN}

InitWith(nets) ==
    /\ \E net \in nets :
          /\ nodes = net.nodes
          /\ edges = net.edges
          /\ graph = net.graph
    /\ traffic_lights = EmptyDict
    /\ call = NoCall
    /\ IdleSearch

-----------------------------------------------------------------------------
(* Specifications *)

\* the steps of one find_path call
SearchStep ==
    \/ Pop
    \/ Exhausted
    \/ Relax
    \/ Walk
    \/ ReturnPath
    \/ Discard

\* route searches over networks with registered signals
Init ==
    InitWith(SearchNets)

Next ==
    \/ \E i \in 1..Len(edges), c \in SearchCycleTimes, r \in SearchGreenRatios :
          add_traffic_light(edges[i].from, edges[i].to, c, r)
    \/ \E s \in SearchIds, g \in SearchIds, t \in StartTimes : find_path(s, g, t)
    \/ SearchStep

Spec ==
    Init /\ [][Next]_vars

\* the signal oracle alone, on the two-node network
InitOracle ==
    InitWith({TwoNodeNet})

NextOracle ==
    \/ \E c \in CycleTimes, r \in GreenRatios : add_traffic_light(0, 1, c, r)
    \/ \E k \in OracleKeys, t \in QueryTimes : QueryWaitTime(k[1], k[2], t)
    \/ \E k \in OracleKeys, t \in QueryTimes : QueryEdgeCost(k[1], k[2], t)

SpecOracle ==
    InitOracle /\ [][NextOracle]_vars

\* route searches over signal-free networks of uniform edge weight
InitUniform ==
    InitWith(UniformNets)

NextUniform ==
    \/ \E s \in SearchIds, g \in SearchIds : find_path(s, g, 0)
    \/ SearchStep

SpecUniform ==
    InitUniform /\ [][NextUniform]_vars

-----------------------------------------------------------------------------
(* Reference notions the properties are stated with *)

\* the nodes one priced edge away from n: successors with a static distance
Successors(n) ==
    {get_neighbors(n)[i] : i \in 1..Len(get_neighbors(n))}
        \cap {m \in DOMAIN nodes : get_edge_distance(n, m) # None}

RECURSIVE Closure(_)
Closure(S) ==
    LET T == S \cup UNION {Successors(n) : n \in S}
    IN  IF T = S THEN S ELSE Closure(T)

\* the nodes reachable from s, s included
ReachableFrom(s) ==
    Closure({s})

\* the least number of edges on a walk from the set S to goal, S being d hops
\* from the start; goal is reachable
RECURSIVE HopsFrom(_, _, _)
HopsFrom(S, goal, d) ==
    IF goal \in S THEN d
    ELSE HopsFrom(S \cup UNION {Successors(n) : n \in S}, goal, d + 1)

HopDistance(start, goal) ==
    HopsFrom({start}, goal, 0)

\* the sum of the static distances of the consecutive edges of a path
RECURSIVE PathDistance(_)
PathDistance(p) ==
    IF Len(p) < 2 THEN 0
    ELSE get_edge_distance(p[1], p[2]) + PathDistance(Tail(p))

\* a call with two distinct endpoints that are both nodes
ProperCall ==
    /\ start_id # goal_id
    /\ has_node(start_id)
    /\ has_node(goal_id)

-----------------------------------------------------------------------------
(* C1 *)

\* C1 (as claimed): whenever at least one endpoint is not a node of the graph,
\* start = goal included, find_path returns the FAILED result, an empty path
\* and infinite cost, and does not raise.
C1_AbsentEndpointFails ==
    (pc \in {"returned", "raised"} /\ (~has_node(start_id) \/ ~has_node(goal_id)))
        => /\ pc = "returned"
           /\ result.path = <<>>
           /\ result.cost = Inf

\* what holds instead: the FAILED result is returned when the endpoints differ
C1_DistinctAbsentEndpointFails ==
    (pc \in {"returned", "raised"} /\ start_id # goal_id
        /\ (~has_node(start_id) \/ ~has_node(goal_id)))
        => /\ pc = "returned"
           /\ result.path = <<>>
           /\ result.cost = Inf

-----------------------------------------------------------------------------
(* C2 *)

\* C2 (as claimed): find_path(n, n, t) on a node n returns the path [n], cost
\* 0 and stats holding the three counters, each zero.
C2_TrivialZeroCounters ==
    (pc = "returned" /\ start_id = goal_id /\ has_node(start_id))
        => /\ result.path = <<start_id>>
           /\ result.cost = 0
           /\ StatKeys \subseteq DOMAIN result.stats
           /\ \A k \in StatKeys : result.stats[k] = 0

\* C2 (amended): find_path(n, n, t) on a node n returns the path [n], cost 0
\* and an empty stats record: none of the three counters is present.
C2_TrivialEmptyStats ==
    (pc = "returned" /\ start_id = goal_id /\ has_node(start_id))
        => /\ result.path = <<start_id>>
           /\ result.cost = 0
           /\ DOMAIN result.stats = {}

\* a trivial call on a node has returned
C2_Witness ==
    /\ pc = "returned"
    /\ start_id = goal_id
    /\ has_node(start_id)
    /\ result.path = <<start_id>>

-----------------------------------------------------------------------------
(* C3 *)

\* every edge has the same weight
UniformEdges ==
    \A i, j \in 1..Len(edges) : edges[i].distance = edges[j].distance

\* the heuristic towards goal is consistent: h(u) <= w(u, v) + h(v) on every edge
Consistent(goal) ==
    \A i \in 1..Len(edges) :
        heuristic(edges[i].from, goal) <= edges[i].distance + heuristic(edges[i].to, goal)

\* a search between distinct nodes, goal reachable, in a signal-free network
\* of uniform weight, has returned
UniformSearchDone ==
    /\ pc = "returned"
    /\ ProperCall
    /\ traffic_lights = EmptyDict
    /\ UniformEdges
    /\ goal_id \in ReachableFrom(start_id)

-----------------------------------------------------------------------------
(* C4 *)

\* a search between distinct nodes whose goal is not reachable has ended
UnreachableSearchDone ==
    /\ pc \in {"returned", "raised"}
    /\ ProperCall
    /\ goal_id \notin ReachableFrom(start_id)

\* C4 (as claimed): when goal is not reachable from start, find_path returns
\* an empty path, infinite cost, and nodes_explored equal to the number of
\* nodes reachable from start through edges that have a static distance.
C4_UnreachableExploresAll ==
    UnreachableSearchDone
        => /\ pc = "returned"
           /\ result.path = <<>>
           /\ result.cost = Inf
           /\ result.stats["nodes_explored"] = Cardinality(ReachableFrom(start_id))

\* what holds instead: the same, for the calls that return
C4_UnreachableExploresAllIfReturned ==
    (UnreachableSearchDone /\ pc = "returned")
        => /\ result.path = <<>>
           /\ result.cost = Inf
           /\ result.stats["nodes_explored"] = Cardinality(ReachableFrom(start_id))

-----------------------------------------------------------------------------
(* C5 *)

\* C5 (as claimed): the cost of a returned path is at least the sum of the
\* static distances of its edges, for any registered signals and start time.
C5_CostCoversDistances ==
    (pc = "returned" /\ result.path # <<>>)
        => result.cost >= PathDistance(result.path)

\* a registered signal has parameters the data model allows
WellFormed(tl) ==
    /\ tl.cycle_time > 0
    /\ 0 <= tl.green_time
    /\ tl.green_time <= tl.cycle_time

\* what holds instead: the same, while every registered signal is well formed
C5_CostCoversDistancesWellFormed ==
    (pc = "returned" /\ result.path # <<>>
        /\ \A k \in DOMAIN traffic_lights : WellFormed(traffic_lights[k]))
        => result.cost >= PathDistance(result.path)

-----------------------------------------------------------------------------
(* C6 *)

\* the query times that cover every offset of a signal's cycle once after and
\* once before its anchor; the cycle is positive
CycleWindow(tl) ==
    {tl.phase_start_time + o : o \in (-tl.cycle_time)..(tl.cycle_time - 1)}

\* on signal key, wait_time is 0 at the offsets in [0, g-5) and positive at
\* every other offset of the cycle
SolidGreenThenWait(key) ==
    LET tl == traffic_lights[key]
    IN  \A t \in CycleWindow(tl) :
            LET offset == (t - tl.phase_start_time) % tl.cycle_time
                w == get_wait_time(key[1], key[2], t)
            IN  /\ ~w.raised
                /\ (offset < tl.green_time - 5) => (w.value = 0)
                /\ (offset >= tl.green_time - 5) => (w.value > 0)

-----------------------------------------------------------------------------
(* C7 *)

\* C7: for every edge with a registered signal, every time t (times before the
\* anchor included) and every integer k, wait_time(e, t) and
\* wait_time(e, t + k * cycle) have the same outcome.
C7_Periodic ==
    \A key \in DOMAIN traffic_lights :
        \A t \in QueryTimes, k \in -MaxK..MaxK :
            get_wait_time(key[1], key[2], t)
                = get_wait_time(key[1], key[2], t + k * traffic_lights[key].cycle_time)

\* a signal was queried before its anchor and charged a wait
C7_Witness ==
    /\ call.op = "wait"
    /\ <<call.from_node, call.to_node>> \in DOMAIN traffic_lights
    /\ traffic_lights[<<call.from_node, call.to_node>>].cycle_time > 0
    /\ call.at_time < traffic_lights[<<call.from_node, call.to_node>>].phase_start_time
    /\ ~call.raised
    /\ call.value > 0

-----------------------------------------------------------------------------
(* C8 *)

\* C8 (as claimed): wait_time returns 0 on an edge with no registered signal,
\* and a value >= 0 for every signal add_traffic_light registers and every
\* query time.
C8_WaitNonNegative ==
    \A key \in OracleKeys, t \in QueryTimes :
        LET w == get_wait_time(key[1], key[2], t)
        IN  /\ ~w.raised
            /\ w.value >= 0
            /\ (key \notin DOMAIN traffic_lights) => (w.value = 0)

\* what holds instead: the same, for the signals that are well formed
C8_WaitNonNegativeWellFormed ==
    \A key \in OracleKeys, t \in QueryTimes :
        LET w == get_wait_time(key[1], key[2], t)
        IN  /\ (key \notin DOMAIN traffic_lights) => (~w.raised /\ w.value = 0)
            /\ (key \in DOMAIN traffic_lights /\ WellFormed(traffic_lights[key]))
                  => (~w.raised /\ w.value >= 0)

-----------------------------------------------------------------------------
(* C9 *)

\* cycle length not greater than 0, or green ratio outside 0..1
Malformed(cycle_time, green_ratio) ==
    \/ cycle_time <= 0
    \/ green_ratio[1] < 0
    \/ green_ratio[1] > green_ratio[2]

\* C9 (as claimed): add_traffic_light with malformed parameters reports an
\* error and leaves the registered signals unchanged, so that no malformed
\* signal is ever registered and no wait_time query fails.
C9_MalformedRejected ==
    /\ (call.op = "add" /\ Malformed(call.cycle_time, call.green_ratio)) => call.raised
    /\ \A key \in DOMAIN traffic_lights : WellFormed(traffic_lights[key])
    /\ (call.op = "wait") => ~call.raised

-----------------------------------------------------------------------------
(* C10 *)

\* the signal of the spec's scenario: cycle 120, green 60, phase red, anchor 0
ScenarioLight(tl) ==
    /\ tl.cycle_time = 120
    /\ tl.green_time = 60
    /\ tl.current_phase = "red"
    /\ tl.phase_start_time = 0

\* C10: for a registered signal whose current phase is red, with
\* elapsed = (t - anchor) mod cycle and red = cycle - green, wait_time returns
\* red - elapsed when elapsed < red and 0 otherwise, and the edge costs its
\* distance plus 13.89 times the wait; the signal (120, 60, red, 0) queried at
\* 0 gives 60, and a 1000 m edge carrying it costs 1000 + 60 * 13.89.
C10_RedPhase ==
    \A key \in DOMAIN traffic_lights :
        LET tl == traffic_lights[key]
            c == tl.cycle_time
            red == c - tl.green_time
        IN  (tl.current_phase = "red" /\ c # 0) =>
               /\ \A t \in QueryTimes :
                     LET d == t - tl.phase_start_time
                         elapsed == IF c > 0 THEN d % c ELSE -((-d) % (-c))
                         wait == IF elapsed < red THEN red - elapsed ELSE 0
                         distance == get_edge_distance(key[1], key[2])
                     IN  /\ get_wait_time(key[1], key[2], t) = Returned(wait)
                         /\ (distance # None) =>
                               get_edge_cost(key[1], key[2], t) = Returned(distance + wait * 1389)
               /\ (ScenarioLight(tl) /\ get_edge_distance(key[1], key[2]) = 100000) =>
                     /\ get_wait_time(key[1], key[2], 0) = Returned(60)
                     /\ get_edge_cost(key[1], key[2], 0) = Returned(100000 + 60 * 1389)

\* the 1000 m edge carrying the scenario's signal was priced at time 0
C10_Witness ==
    /\ call.op = "cost"
    /\ call.at_time = 0
    /\ <<call.from_node, call.to_node>> \in DOMAIN traffic_lights
    /\ ScenarioLight(traffic_lights[<<call.from_node, call.to_node>>])
    /\ get_edge_distance(call.from_node, call.to_node) = 100000
    /\ ~call.raised
    /\ call.value = 183340

-----------------------------------------------------------------------------
(* C11 *)

\* a search is under way or has ended: the call got past its two early returns
SearchRan ==
    pc # "idle" /\ pushed # <<>>

\* the clock after the edges ps were priced one after the other, starting at t
RECURSIVE ClockAfter(_, _)
ClockAfter(t, ps) ==
    IF ps = <<>> THEN t
    ELSE ClockAfter(t + Head(ps).edge_cost \div AverageSpeed, Tail(ps))

\* the clock is start_time plus the travel times of the edges priced so far,
\* each of them priced with the wait at the clock value of its turn, and no
\* pricing has set the clock back
ClockIsSumOfPriced ==
    SearchRan =>
        /\ current_time = ClockAfter(start_time, priced)
        /\ \A i \in 1..Len(priced) :
              LET e == priced[i]
                  clock == ClockAfter(start_time, SubSeq(priced, 1, i - 1))
              IN  /\ e.at_time = clock
                  /\ get_edge_distance(e.from, e.to) # None
                  /\ get_wait_time(e.from, e.to, clock)
                        = Returned((e.edge_cost - get_edge_distance(e.from, e.to)) \div AverageSpeed)
                  /\ ClockAfter(start_time, SubSeq(priced, 1, i)) >= clock

\* one step of a call: the clock starts at start_time and never decreases; a
\* turn of the neighbor loop prices the edge and advances the clock by
\* edge_cost / 13.89 exactly when the neighbor is not finalized and has a
\* static distance, and leaves the clock alone otherwise
ClockStep ==
    /\ (pc = "idle" /\ pc' = "loop") => (current_time' = start_time')
    /\ (pc # "idle" /\ pc' # "idle") => (current_time' >= current_time)
    /\ (pc # "idle" /\ pc' # "idle" /\ pc # "expand") => (current_time' = current_time)
    /\ (pc = "expand") =>
          LET neighbor_id == Head(neighbors)
              distance == get_edge_distance(current.node_id, neighbor_id)
          IN  IF neighbor_id \in closed_set \/ distance = None
              THEN current_time' = current_time /\ priced' = priced
              ELSE /\ Len(priced') = Len(priced) + 1
                   /\ priced'[Len(priced')].from = current.node_id
                   /\ priced'[Len(priced')].to = neighbor_id
                   /\ priced'[Len(priced')].at_time = current_time
                   /\ current_time' * AverageSpeed
                         = current_time * AverageSpeed + priced'[Len(priced')].edge_cost

\* C11 (as claimed): during one find_path run a single clock starts at
\* start_time and never decreases; every edge is priced with the wait at the
\* clock's current value; the clock always equals start_time plus the sum of
\* edge_cost / 13.89 over the edges priced so far, every non-finalized
\* neighbor with a static distance being priced; finalized neighbors and
\* neighbors without a distance leave the clock unchanged.
C11_SingleClock ==
    []ClockIsSumOfPriced /\ [][ClockStep]_vars

\* every registered signal is well formed
AllWellFormed ==
    \A k \in DOMAIN traffic_lights : WellFormed(traffic_lights[k])

\* what holds instead: the same, while every registered signal is well formed
C11_SingleClockWellFormed ==
    [](AllWellFormed => ClockIsSumOfPriced) /\ [][AllWellFormed => ClockStep]_vars

\* the clock was set back by the pricing of an edge
C11_ClockSetBack ==
    SearchRan /\ current_time < start_time

-----------------------------------------------------------------------------
(* C12 *)

\* the elements of a sequence
Range(s) ==
    {s[i] : i \in 1..Len(s)}

\* no element occurs twice in s
NoDuplicates(s) ==
    \A i, j \in 1..Len(s) : (s[i] = s[j]) => (i = j)

\* no node was finalized twice, the closed set holds exactly the finalized
\* nodes, and nodes_explored counts them
FinalizedOnce ==
    SearchRan =>
        /\ NoDuplicates(explored)
        /\ closed_set = Range(explored)
        /\ stats["nodes_explored"] = Cardinality(closed_set)

\* the frontier's next pop is a stale one: its node is already finalized
StalePop ==
    /\ pc = "loop"
    /\ open_list # <<>>
    /\ heappop_item(open_list).node_id \in closed_set

\* one step of a call: the closed set keeps its members, and a stale pop takes
\* its entry (which the loop holds in current) off the frontier and changes
\* nothing else
ClosedStep ==
    /\ (pc # "idle" /\ pc' # "idle") => (closed_set \subseteq closed_set')
    /\ StalePop =>
          /\ Len(open_list') = Len(open_list) - 1
          /\ Range(open_list') = Range(open_list) \ {heappop_item(open_list)}
          /\ current' = heappop_item(open_list)
          /\ UNCHANGED <<pc, closed_set, g_costs, parents, stats, current_time, neighbors,
                         node_id, path, result, explored, priced, pushed>>

\* C12: in every reachable state of a find_path run each node has been
\* finalized at most once, the closed set never loses a member,
\* nodes_explored equals the size of the closed set, and popping an entry whose
\* node is already finalized changes nothing except removing that entry from
\* the frontier.
C12_FinalizedOnce ==
    []FinalizedOnce /\ [][ClosedStep]_vars

\* a stale entry was popped: its node had been finalized under a cheaper entry
C12_Witness ==
    /\ pc = "loop"
    /\ SearchRan
    /\ current.node_id \in closed_set
    /\ current.g_cost > g_costs[current.node_id]
    /\ stats["nodes_explored"] = Cardinality(closed_set)
    /\ Len(pushed) - Len(open_list) > Len(explored)

-----------------------------------------------------------------------------
(* C13 *)

\* the frontier entries of minimal f
MinimalEntries ==
    {e \in Range(open_list) : \A d \in Range(open_list) : f_cost(e) <= f_cost(d)}

\* the position of frontier entry e in the order of the pushes; the entries of
\* one call differ pairwise (a node is pushed again only at a lower cost)
PushIndex(e) ==
    CHOOSE i \in 1..Len(pushed) : pushed[i] = e

\* the entry of minimal f that was pushed first
EarliestMinimal ==
    CHOOSE e \in MinimalEntries : \A d \in MinimalEntries : PushIndex(e) <= PushIndex(d)

\* a pop is about to happen
PopDue ==
    pc = "loop" /\ open_list # <<>>

\* C13 (as claimed): whenever the frontier holds several entries with the same
\* minimal f = g + h, the pop returns the one that was pushed earliest, for
\* every sequence of pushes and pops the search can perform.
C13_StableTies ==
    [][PopDue => (current' = EarliestMinimal)]_vars

\* what holds instead: the pop returns an entry of minimal f
C13_PopsMinimalF ==
    [][PopDue => (current' \in MinimalEntries)]_vars

-----------------------------------------------------------------------------
(* C14 *)

\* the call has ended, with a result or with an exception
Ended ==
    pc \in {"returned", "raised"}

\* the terminal states of a call
Succeeded ==
    pc = "returned" /\ result.path # <<>> /\ result.cost # Inf

Failed ==
    pc = "returned" /\ result.path = <<>> /\ result.cost = Inf

\* the (from, to) pairs of the priced edges, in order
PricedPairs ==
    [i \in 1..Len(priced) |-> <<priced[i].from, priced[i].to>>]

\* an ended call is in exactly one of the two terminal states; the pops are
\* bounded by the pushes, the pushes by one per examined edge plus the start
\* entry, and no edge is examined twice; the walk visits no node twice
BoundedSearch ==
    /\ Ended => (Succeeded \/ Failed)
    /\ ~(Succeeded /\ Failed)
    /\ SearchRan =>
          /\ Len(pushed) - Len(open_list) <= Len(pushed)
          /\ Len(pushed) <= 1 + Len(priced)
          /\ NoDuplicates(PricedPairs)
          /\ Len(priced) <= Len(edges)
          /\ NoDuplicates(path)
          /\ Len(path) <= Cardinality(DOMAIN nodes)

\* a terminal state does not resume: the call takes no further step and its
\* result stays as returned until the caller drops it
TerminalStep ==
    Ended => (pc' = "idle" \/ UNCHANGED <<pc, result, searchVars>>)

\* C14 (as claimed): every find_path call ends in exactly one terminal state,
\* SUCCEEDED or FAILED, and never leaves it; the pop loop performs a bounded
\* number of pops (at most one push per examined edge plus the start entry),
\* and the parent-pointer walk ends after finitely many steps.
C14_TerminatesInTerminalState ==
    []BoundedSearch /\ [][TerminalStep]_vars

\* what holds instead: the same, for the calls that do not raise
C14_BoundedIfReturned ==
    [](pc # "raised" => BoundedSearch) /\ [][TerminalStep]_vars

\* the search steps are taken as long as one is possible: find_path runs to
\* its end in one unbroken call
FairSpec ==
    Spec /\ WF_vars(Pop \/ Exhausted \/ Relax \/ Walk \/ ReturnPath)

\* and every call that started does end, by a result or by an exception
C14_CallEnds ==
    (pc \in {"loop", "expand", "walk"}) ~> Ended

-----------------------------------------------------------------------------
(* C15 *)

\* (u, v) is a directed edge with a static distance
PricedSuccessor(u, v) ==
    /\ \E i \in 1..Len(get_neighbors(u)) : get_neighbors(u)[i] = v
    /\ get_edge_distance(u, v) # None

\* the position of a finalized node in the order of finalisation
FinalizedIndex(n) ==
    CHOOSE i \in 1..Len(explored) : explored[i] = n

\* a successful search between distinct nodes returned a simple path from
\* start to goal along edges that have a static distance
ValidPath ==
    (Succeeded /\ start_id # goal_id) =>
        LET p == result.path
        IN  /\ p[1] = start_id
            /\ p[Len(p)] = goal_id
            /\ NoDuplicates(p)
            /\ \A i \in 1..(Len(p) - 1) : PricedSuccessor(p[i], p[i + 1])

\* start has no predecessor, and every recorded predecessor was finalized, and
\* finalized before its child if the child was finalized at all
ParentsFinalizedFirst ==
    SearchRan =>
        /\ start_id \notin DOMAIN parents
        /\ \A c \in DOMAIN parents :
              /\ parents[c] \in Range(explored)
              /\ (c \in Range(explored)) => (FinalizedIndex(parents[c]) < FinalizedIndex(c))

\* a predecessor is recorded only for a node that is not finalized, and it is
\* a finalized node
ParentStep ==
    (pc # "idle" /\ pc' # "idle") =>
        \A c \in DOMAIN parents' :
            (c \notin DOMAIN parents \/ parents'[c] # parents[c])
                => (c \notin closed_set /\ parents'[c] \in closed_set)

\* C15: whenever find_path succeeds with start # goal, the returned path starts
\* with start, ends with goal, contains no node twice, and every consecutive
\* pair in it is a directed edge with a defined static distance; the parent
\* map never assigns a predecessor to start, and every recorded predecessor is
\* a node finalized before its child.
C15_PathFollowsParents ==
    [](ValidPath /\ ParentsFinalizedFirst) /\ [][ParentStep]_vars

\* a search returned a path of three edges after the predecessor of one of its
\* nodes had been replaced by a cheaper one
C15_Witness ==
    /\ Succeeded
    /\ start_id # goal_id
    /\ Len(result.path) = 4
    /\ \E i, j \in 1..Len(pushed) :
          i < j /\ pushed[i].node_id = pushed[j].node_id /\ pushed[i].parent # pushed[j].parent

=============================================================================
